---- MODULE Spec2Model ----
(***************************************************************************)
(* A model of the configuration service of Snider/config                   *)
(* (pkg/config/config.go, pkg/config/formats.go): the settings record, the *)
(* file system it is persisted to, and the operations New, Save, Get, Set, *)
(* SaveStruct and LoadStruct.                                              *)
(*                                                                         *)
(* Representation.                                                         *)
(*  - A Go string is a sequence of path components: "" is <<>>, "en" is    *)
(*    <<"en">>, "/" is <<"/">>, "/alt" is <<"/", "alt">>.  filepath.Join   *)
(*    is then concatenation and filepath.Dir drops the last component.     *)
(*  - A Go value is a record [t, nil, v]: its dynamic type, whether it is  *)
(*    nil, and its content (a sequence of strings for string, []string and *)
(*    int; a record of Go values for a struct).                            *)
(*  - A file's content is a JSON value [t, v], with the two extra kinds    *)
(*    "empty" (zero bytes) and "malformed" (bytes that are no JSON text).  *)
(***************************************************************************)
EXTENDS Naturals, Sequences, FiniteSets, TLC

VARIABLES
    s,        \* the fields of the *Service the caller holds
    inited,   \* whether the caller holds a service (the last New succeeded)
    files,    \* the regular files on disk: path -> content
    dirs,     \* the directories on disk
    last,     \* the last call: its inputs and what it returned
    lastSet,  \* the last Set call on the service held (none after New)
    prior,    \* at the last New: the service replaced and the calls before
    nnew,     \* number of calls of New so far
    nops,     \* number of calls made on services so far
    aborted,  \* the program was ended by a panic
    conc      \* the goroutines calling the service at once, and the words
              \* of memory they race on

vars == <<s, inited, files, dirs, last, lastSet, prior, nnew, nops, aborted,
          conc>>

\* Bounds of the model: the calls made on the service in Spec, and the
\* calls made on services and the calls of New in SpecSeq.
MaxOps == 1
MaxSeq == 2
MaxNew == 2

\* config.go:50-51
appName == "lethean"
configFileName == "config.json"

-----------------------------------------------------------------------------
(* Go values *)

V(t, v) == [t |-> t, nil |-> FALSE, v |-> v]
NilOf(t) == [t |-> t, nil |-> TRUE, v |-> <<>>]

\* The nil interface value (a call such as Set(key, nil)).
UntypedNil == NilOf("nil")

Str(v) == V("string", v)

\* A byte that is not valid UTF-8 inside a Go string, and the rune
\* encoding/json writes in its place.
InvalidUTF8 == "<0xff>"
ReplacementChar == "<U+FFFD>"

\* encoding/json coerces every string it writes to valid UTF-8.
ToValidUTF8(v) ==
    [i \in DOMAIN v |-> IF v[i] = InvalidUTF8 THEN ReplacementChar ELSE v[i]]

\* A faulty variant of AssignableTo, kept to show that the properties of
\* Get tell it from the code: every type passes.
AssignableToAny(src, dst) == TRUE

\* reflect.Type.AssignableTo, for the types of the model.
AssignableTo(src, dst) == src = dst \/ dst = "interface {}"

-----------------------------------------------------------------------------
(* Paths and the file system *)

Join(dir, name) == dir \o <<name>>

Dir(p) == IF Len(p) = 0 THEN <<>> ELSE SubSeq(p, 1, Len(p) - 1)

\* Every non-empty prefix of a path, the path included.
Prefixes(p) == {SubSeq(p, 1, n) : n \in 1..Len(p)}

\* The directory "" (a relative path's parent) is the working directory.
DirExists(d, ds) == d = <<>> \/ d \in ds

\* os.ReadFile: "ok" with the content, "notexist" (ENOENT), or "error"
\* (the path is a directory, or runs through a regular file).
ReadStatus(p, fs, ds) ==
    IF p \in DOMAIN fs THEN "ok"
    ELSE IF p \in ds THEN "error"
    ELSE IF \E q \in Prefixes(p) : q \in DOMAIN fs THEN "error"
    ELSE "notexist"

\* os.WriteFile can open the path: it is not empty, is no directory, and
\* its parent is an existing directory.
CanOpenForWrite(p, fs, ds) ==
    /\ Len(p) > 0
    /\ p \notin ds
    /\ DirExists(Dir(p), ds)

\* The outcomes of os.WriteFile(p, data): under fault "none" the file holds
\* data; a failure to open leaves the disk as it was; a failure while
\* writing (the file is opened with O_TRUNC first) leaves a truncated file.
EmptyContent == [t |-> "empty", v |-> <<>>]

WriteFile(p, data, fault, fs, ds) ==
    IF fault = "open" \/ ~CanOpenForWrite(p, fs, ds)
    THEN [err |-> "write", files |-> fs]
    ELSE IF fault = "write"
    THEN [err |-> "write", files |-> (p :> EmptyContent) @@ fs]
    ELSE [err |-> "nil", files |-> (p :> data) @@ fs]

\* os.MkdirAll can create the directory: no prefix of it is a regular file.
CanMkdirAll(d, fs) == Len(d) > 0 /\ \A q \in Prefixes(d) : q \notin DOMAIN fs

-----------------------------------------------------------------------------
(* Struct types and their json tags *)

\* The fields of Service in declaration order; tag is the json tag split on
\* "," (strings.Split(jsonTag, ",")).
ServiceFields == <<
    [name |-> "ServiceRuntime", type |-> "*core.ServiceRuntime", tag |-> <<"-">>],
    [name |-> "ConfigPath",   type |-> "string",   tag |-> <<"configPath", "omitempty">>],
    [name |-> "UserHomeDir",  type |-> "string",   tag |-> <<"userHomeDir", "omitempty">>],
    [name |-> "RootDir",      type |-> "string",   tag |-> <<"rootDir", "omitempty">>],
    [name |-> "CacheDir",     type |-> "string",   tag |-> <<"cacheDir", "omitempty">>],
    [name |-> "ConfigDir",    type |-> "string",   tag |-> <<"configDir", "omitempty">>],
    [name |-> "DataDir",      type |-> "string",   tag |-> <<"dataDir", "omitempty">>],
    [name |-> "WorkspaceDir", type |-> "string",   tag |-> <<"workspaceDir", "omitempty">>],
    [name |-> "DefaultRoute", type |-> "string",   tag |-> <<"default_route">>],
    [name |-> "Features",     type |-> "[]string", tag |-> <<"features">>],
    [name |-> "Language",     type |-> "string",   tag |-> <<"language">> ] >>

\* The record the tests save and load with SaveStruct and LoadStruct.
CustomConfigFields == <<
    [name |-> "APIKey",  type |-> "string", tag |-> <<"apiKey">>],
    [name |-> "Timeout", type |-> "int",    tag |-> <<"timeout">>] >>

StructTypes == {"Service", "CustomConfig"}

StructFields(t) == IF t = "Service" THEN ServiceFields ELSE CustomConfigFields

\* Unicode simple case folding, on the keys the model uses.
FoldTable ==
    ("configPath" :> "configpath") @@ ("userHomeDir" :> "userhomedir") @@
    ("rootDir" :> "rootdir") @@ ("cacheDir" :> "cachedir") @@
    ("configDir" :> "configdir") @@ ("dataDir" :> "datadir") @@
    ("workspaceDir" :> "workspacedir") @@ ("LANGUAGE" :> "language") @@
    ("Features" :> "features") @@ ("ROOTDIR" :> "rootdir") @@
    ("apiKey" :> "apikey")

Fold(k) == IF k \in DOMAIN FoldTable THEN FoldTable[k] ELSE k

\* strings.EqualFold
EqualFold(a, b) == Fold(a) = Fold(b)

-----------------------------------------------------------------------------
(* encoding/json *)

JSON(t, v) == [t |-> t, v |-> v]
JSONNull == JSON("null", <<>>)
MalformedContent == JSON("malformed", <<>>)

\* The fields encoding/json reads and writes: those not tagged "-".
JSONFieldsOf ==
    [t \in StructTypes |->
        {i \in DOMAIN StructFields(t) : StructFields(t)[i].tag # <<"-">>}]

JSONFields(t) == JSONFieldsOf[t]

\* The field of struct type t that the json name k belongs to, and the
\* position of the field named n.
FieldOfTag ==
    [t \in StructTypes |->
        [k \in {StructFields(t)[i].tag[1] : i \in JSONFields(t)} |->
            CHOOSE i \in JSONFields(t) : StructFields(t)[i].tag[1] = k]]

FieldIndex ==
    [t \in StructTypes |->
        [n \in {StructFields(t)[i].name : i \in DOMAIN StructFields(t)} |->
            CHOOSE i \in DOMAIN StructFields(t) : StructFields(t)[i].name = n]]

\* A faulty variant of OmitEmpty: no field is left out of the document.
OmitEmptyNever(f) == FALSE

OmitEmpty(f) == \E i \in 2..Len(f.tag) : f.tag[i] = "omitempty"

\* encoding/json's isEmptyValue.
IsEmptyValue(x) ==
    \/ x.nil
    \/ x.t \in {"string", "[]string"} /\ Len(x.v) = 0
    \/ x.t = "int" /\ x.v = <<"0">>

\* A faulty variant of MarshalScalar: an empty list is written as null, as
\* a nil one is.
MarshalScalarEmptyAsNull(x) ==
    IF x.t = "string" THEN JSON("string", ToValidUTF8(x.v))
    ELSE IF x.t = "[]string"
    THEN (IF x.nil \/ Len(x.v) = 0 THEN JSONNull
          ELSE JSON("array", ToValidUTF8(x.v)))
    ELSE IF x.t = "int" THEN JSON("number", x.v)
    ELSE JSONNull

\* A string, []string or int as JSON.
MarshalScalar(x) ==
    IF x.t = "string" THEN JSON("string", ToValidUTF8(x.v))
    ELSE IF x.t = "[]string"
    THEN (IF x.nil THEN JSONNull ELSE JSON("array", ToValidUTF8(x.v)))
    ELSE IF x.t = "int" THEN JSON("number", x.v)
    ELSE JSONNull

\* A struct as a JSON object: one member per field, under the tag's name,
\* leaving out the omitempty fields that hold an empty value.
MarshalStruct(x) ==
    LET fs == StructFields(x.t)
        kept == {i \in JSONFields(x.t) :
                    ~(OmitEmpty(fs[i]) /\ IsEmptyValue(x.v[fs[i].name]))}
        keys == {fs[i].tag[1] : i \in kept}
    IN  JSON("object",
             [k \in keys |-> MarshalScalar(x.v[fs[FieldOfTag[x.t][k]].name])])

\* json.MarshalIndent(x, "", "  "): [err, data].
Marshal(x) ==
    IF x.t = "chan int" THEN [err |-> "marshal", data |-> EmptyContent]
    ELSE IF x.t = "nil" THEN [err |-> "nil", data |-> JSONNull]
    ELSE IF x.t \in StructTypes THEN [err |-> "nil", data |-> MarshalStruct(x)]
    ELSE [err |-> "nil", data |-> MarshalScalar(x)]

\* Decoding JSON value j into a variable of a scalar type holding cur.
DecodeScalar(j, cur) ==
    IF j.t = "null"
    THEN [err |-> "nil", val |-> IF cur.t = "[]string" THEN NilOf(cur.t) ELSE cur]
    ELSE IF cur.t = "string" /\ j.t = "string"
    THEN [err |-> "nil", val |-> V("string", j.v)]
    ELSE IF cur.t = "[]string" /\ j.t = "array"
    THEN [err |-> "nil", val |-> V("[]string", j.v)]
    ELSE IF cur.t = "int" /\ j.t = "number"
    THEN [err |-> "nil", val |-> V("int", j.v)]
    ELSE [err |-> "unmarshal", val |-> cur]

\* The member of object j that decodes into field f: the one named exactly
\* as the tag, else one equal to it ignoring case; {} when there is none.
MembersFor(j, f) ==
    LET exact == {k \in DOMAIN j.v : k = f.tag[1]}
    IN  IF exact # {} THEN exact
        ELSE {k \in DOMAIN j.v : EqualFold(k, f.tag[1])}

\* A faulty variant of DecodeStruct: null sets the struct to its zero
\* value (as it does a slice), instead of leaving it alone.
DecodeStructNullZeroes(j, cur) ==
    IF j.t = "null"
    THEN [err |-> "nil",
          val |-> [cur EXCEPT !.v = [n \in DOMAIN cur.v |->
                      IF cur.v[n].t = "int" THEN V("int", <<"0">>)
                      ELSE IF cur.v[n].t = "string" THEN Str(<<>>)
                      ELSE NilOf(cur.v[n].t)]]]
    ELSE IF j.t # "object" THEN [err |-> "unmarshal", val |-> cur]
    ELSE
      LET fs == StructFields(cur.t)
          idx(n) == FieldIndex[cur.t][n]
          dec(n) ==
            LET f == fs[idx(n)]
                ks == MembersFor(j, f)
            IN  IF idx(n) \notin JSONFields(cur.t) \/ ks = {}
                THEN [err |-> "nil", val |-> cur.v[n]]
                ELSE DecodeScalar(j.v[CHOOSE k \in ks : TRUE], cur.v[n])
      IN  [err |-> IF \E n \in DOMAIN cur.v : dec(n).err # "nil"
                   THEN "unmarshal" ELSE "nil",
           val |-> [cur EXCEPT !.v = [n \in DOMAIN cur.v |-> dec(n).val]]]

\* Decoding JSON value j into a struct holding cur: members with no field
\* are skipped, fields with no member keep their value, a member of the
\* wrong type is skipped and remembered as the error.
DecodeStruct(j, cur) ==
    IF j.t = "null" THEN [err |-> "nil", val |-> cur]
    ELSE IF j.t # "object" THEN [err |-> "unmarshal", val |-> cur]
    ELSE
      LET fs == StructFields(cur.t)
          idx(n) == FieldIndex[cur.t][n]
          dec(n) ==
            LET f == fs[idx(n)]
                ks == MembersFor(j, f)
            IN  IF idx(n) \notin JSONFields(cur.t) \/ ks = {}
                THEN [err |-> "nil", val |-> cur.v[n]]
                ELSE DecodeScalar(j.v[CHOOSE k \in ks : TRUE], cur.v[n])
      IN  [err |-> IF \E n \in DOMAIN cur.v : dec(n).err # "nil"
                   THEN "unmarshal" ELSE "nil",
           val |-> [cur EXCEPT !.v = [n \in DOMAIN cur.v |-> dec(n).val]]]

\* json.Unmarshal(data, &cur): [err, val].  The text is validated before
\* anything is decoded, so a syntax error leaves cur as it was.
Unmarshal(data, cur) ==
    IF data.t \in {"empty", "malformed"} THEN [err |-> "unmarshal", val |-> cur]
    ELSE IF cur.t \in StructTypes THEN DecodeStruct(data, cur)
    ELSE DecodeScalar(data, cur)

-----------------------------------------------------------------------------
(* The environment *)

\* os.UserHomeDir() ($HOME), and the locations github.com/adrg/xdg gives
\* when XDG_DATA_HOME and XDG_CACHE_HOME are unset.
HomeDir == <<"/", "home">>
DataFile(rel) == HomeDir \o <<".local", "share", rel>>
CacheFile(rel) == HomeDir \o <<".cache", rel>>

\* What can go wrong outside the program during one call.
Faults == {"none", "home", "data", "cache", "read", "open", "write"}
MkdirFaults == {"mkdir1", "mkdir2", "mkdir3", "mkdir4", "mkdir5", "mkdir6"}
WriteFaults == {"none", "open", "write"}
ReadFaults == {"none", "read"}

\* The error a fault makes the call return.
ErrorOf(fault) ==
    IF fault \in MkdirFaults THEN "mkdir"
    ELSE IF fault \in {"open", "write"} THEN "write"
    ELSE fault

\* The fault a call met: the injected one when the call returned its error.
FaultMet(fault, err) == IF err = ErrorOf(fault) THEN fault ELSE "none"

FailingMkdir(fault) ==
    CASE fault = "mkdir1" -> 1 [] fault = "mkdir2" -> 2 [] fault = "mkdir3" -> 3
      [] fault = "mkdir4" -> 4 [] fault = "mkdir5" -> 5 [] fault = "mkdir6" -> 6
      [] OTHER -> 0

-----------------------------------------------------------------------------
(* The service *)

ZeroService == [
    ServiceRuntime |-> NilOf("*core.ServiceRuntime"),
    ConfigPath   |-> Str(<<>>),
    UserHomeDir  |-> Str(<<>>),
    RootDir      |-> Str(<<>>),
    CacheDir     |-> Str(<<>>),
    ConfigDir    |-> Str(<<>>),
    DataDir      |-> Str(<<>>),
    WorkspaceDir |-> Str(<<>>),
    DefaultRoute |-> Str(<<>>),
    Features     |-> NilOf("[]string"),
    Language     |-> Str(<<>>) ]

\* The record createServiceInstance builds before it looks at the disk.
DefaultService ==
    LET userHomeDir == Join(HomeDir, appName)
        configDir == Join(userHomeDir, "config")
    IN  [ ServiceRuntime |-> NilOf("*core.ServiceRuntime"),
          ConfigPath   |-> Str(Join(configDir, configFileName)),
          UserHomeDir  |-> Str(userHomeDir),
          RootDir      |-> Str(DataFile(appName)),
          CacheDir     |-> Str(CacheFile(appName)),
          ConfigDir    |-> Str(configDir),
          DataDir      |-> Str(Join(userHomeDir, "data")),
          WorkspaceDir |-> Str(Join(userHomeDir, "workspace")),
          DefaultRoute |-> Str(<<"/">>),
          Features     |-> V("[]string", <<>>),
          Language     |-> Str(<<"en">>) ]

\* A faulty variant of Save: the file written is config.json under the
\* record's ConfigDir, whatever ConfigPath holds.
SaveUnderConfigDir(svc, fault, fs, ds) ==
    LET m == Marshal(V("Service", svc))
    IN  IF m.err # "nil" THEN [err |-> "marshal", files |-> fs]
        ELSE WriteFile(Join(svc.ConfigDir.v, configFileName), m.data,
                       fault, fs, ds)

\* Save: marshal the whole record, write it to ConfigPath.
Save(svc, fault, fs, ds) ==
    LET m == Marshal(V("Service", svc))
    IN  IF m.err # "nil" THEN [err |-> "marshal", files |-> fs]
        ELSE WriteFile(svc.ConfigPath.v, m.data, fault, fs, ds)

\* A faulty variant of FieldFor: the tag "-" is not skipped.
FieldForAnyTag(key) ==
    LET bound == {i \in DOMAIN ServiceFields :
                    /\ ServiceFields[i].tag # <<"">>
                    /\ EqualFold(ServiceFields[i].tag[1], key)}
    IN  IF bound = {} THEN 0
        ELSE CHOOSE i \in bound : \A j \in bound : i <= j

\* A faulty variant of FieldFor: the json name is compared as written.
FieldForExact(key) ==
    LET bound == {i \in DOMAIN ServiceFields :
                    /\ ServiceFields[i].tag # <<"">>
                    /\ ServiceFields[i].tag # <<"-">>
                    /\ ServiceFields[i].tag[1] = key}
    IN  IF bound = {} THEN 0
        ELSE CHOOSE i \in bound : \A j \in bound : i <= j

\* The first field whose json name is key ignoring case, 0 when no field
\* is bound to key (the loops of Get and Set).
FieldFor(key) ==
    LET bound == {i \in DOMAIN ServiceFields :
                    /\ ServiceFields[i].tag # <<"">>
                    /\ ServiceFields[i].tag # <<"-">>
                    /\ EqualFold(ServiceFields[i].tag[1], key)}
    IN  IF bound = {} THEN 0
        ELSE CHOOSE i \in bound : \A j \in bound : i <= j

\* An `out any` argument: what was passed (a pointer, a nil pointer, a
\* value that is no pointer, or nil), the pointer's element type, and the
\* value it points to.
NoSlot == [kind |-> "none", type |-> "", val |-> UntypedNil]

\* Two faulty variants of Get: one returns success without copying the
\* field, the other copies from the slot into the field.
GetNoCopy(svc, key, out) ==
    LET i == FieldFor(key)
        f == ServiceFields[i]
    IN  IF i = 0 THEN [err |-> "key not found", out |-> out, svc |-> svc]
        ELSE IF out.kind # "ptr"
        THEN [err |-> "not a pointer", out |-> out, svc |-> svc]
        ELSE IF ~AssignableTo(svc[f.name].t, out.type)
        THEN [err |-> "cannot assign", out |-> out, svc |-> svc]
        ELSE [err |-> "nil", out |-> out, svc |-> svc]

GetSwapped(svc, key, out) ==
    LET i == FieldFor(key)
        f == ServiceFields[i]
    IN  IF i = 0 THEN [err |-> "key not found", out |-> out, svc |-> svc]
        ELSE IF out.kind # "ptr"
        THEN [err |-> "not a pointer", out |-> out, svc |-> svc]
        ELSE IF ~AssignableTo(svc[f.name].t, out.type)
        THEN [err |-> "cannot assign", out |-> out, svc |-> svc]
        ELSE [err |-> "nil", out |-> out,
              svc |-> [svc EXCEPT ![f.name] = out.val]]

\* Get: [err, out, svc], out being the slot and svc the record afterwards.
Get(svc, key, out) ==
    LET i == FieldFor(key)
        f == ServiceFields[i]
    IN  IF i = 0 THEN [err |-> "key not found", out |-> out, svc |-> svc]
        ELSE IF out.kind # "ptr"
        THEN [err |-> "not a pointer", out |-> out, svc |-> svc]
        ELSE IF ~AssignableTo(svc[f.name].t, out.type)
        THEN [err |-> "cannot assign", out |-> out, svc |-> svc]
        ELSE [err |-> "nil", out |-> [out EXCEPT !.val = svc[f.name]], svc |-> svc]

\* A faulty variant of Set: the record is saved before the field is
\* assigned.
SetSaveFirst(svc, key, v, fault, fs, ds) ==
    LET i == FieldFor(key)
        f == ServiceFields[i]
    IN  IF i = 0 THEN [err |-> "key not found", svc |-> svc, files |-> fs]
        ELSE IF v = UntypedNil THEN [err |-> "panic", svc |-> svc, files |-> fs]
        ELSE IF ~AssignableTo(v.t, f.type)
        THEN [err |-> "type mismatch", svc |-> svc, files |-> fs]
        ELSE LET w == Save(svc, fault, fs, ds)
             IN  [err |-> w.err, svc |-> [svc EXCEPT ![f.name] = v],
                  files |-> w.files]

\* A faulty variant of Set: when Save fails the field is given back the
\* value it had.
SetRollback(svc, key, v, fault, fs, ds) ==
    LET i == FieldFor(key)
        f == ServiceFields[i]
    IN  IF i = 0 THEN [err |-> "key not found", svc |-> svc, files |-> fs]
        ELSE IF v = UntypedNil THEN [err |-> "panic", svc |-> svc, files |-> fs]
        ELSE IF ~AssignableTo(v.t, f.type)
        THEN [err |-> "type mismatch", svc |-> svc, files |-> fs]
        ELSE LET new == [svc EXCEPT ![f.name] = v]
                 w == Save(new, fault, fs, ds)
             IN  [err |-> w.err, svc |-> IF w.err = "nil" THEN new ELSE svc,
                  files |-> w.files]

\* Set: [err, svc, files].  reflect.ValueOf(nil) is the zero Value, and
\* its Type() panics: err is then "panic".
Set(svc, key, v, fault, fs, ds) ==
    LET i == FieldFor(key)
        f == ServiceFields[i]
    IN  IF i = 0 THEN [err |-> "key not found", svc |-> svc, files |-> fs]
        ELSE IF v = UntypedNil THEN [err |-> "panic", svc |-> svc, files |-> fs]
        ELSE IF ~AssignableTo(v.t, f.type)
        THEN [err |-> "type mismatch", svc |-> svc, files |-> fs]
        ELSE LET new == [svc EXCEPT ![f.name] = v]
                 w == Save(new, fault, fs, ds)
             IN  [err |-> w.err, svc |-> new, files |-> w.files]

\* key + ".json" under ConfigDir.
StructPath(svc, key) == Join(svc.ConfigDir.v, key \o ".json")

\* Two faulty variants of SaveStruct: one writes to the name without
\* ".json", the other opens the file before it marshals the value.
SaveStructNoExt(svc, key, data, fault, fs, ds) ==
    LET m == Marshal(data)
    IN  IF m.err # "nil" THEN [err |-> "marshal", files |-> fs]
        ELSE WriteFile(Join(svc.ConfigDir.v, key), m.data, fault, fs, ds)

SaveStructOpenFirst(svc, key, data, fault, fs, ds) ==
    LET m == Marshal(data)
        o == WriteFile(StructPath(svc, key), EmptyContent, fault, fs, ds)
    IN  IF o.err # "nil" THEN o
        ELSE IF m.err # "nil" THEN [err |-> "marshal", files |-> o.files]
        ELSE WriteFile(StructPath(svc, key), m.data, fault, fs, ds)

\* SaveStruct: [err, files].
SaveStruct(svc, key, data, fault, fs, ds) ==
    LET m == Marshal(data)
    IN  IF m.err # "nil" THEN [err |-> "marshal", files |-> fs]
        ELSE WriteFile(StructPath(svc, key), m.data, fault, fs, ds)

\* A faulty variant of LoadStruct: a file that does not exist is a read
\* error like any other.
LoadStructMustExist(svc, key, out, fault, fs, ds) ==
    LET p == StructPath(svc, key)
        st == IF fault = "read" THEN "error" ELSE ReadStatus(p, fs, ds)
    IN  IF st # "ok" THEN [err |-> "read", out |-> out]
        ELSE IF fs[p].t \in {"empty", "malformed"} \/ out.kind # "ptr"
        THEN [err |-> "unmarshal", out |-> out]
        ELSE LET u == Unmarshal(fs[p], out.val)
             IN  [err |-> u.err, out |-> [out EXCEPT !.val = u.val]]

\* A faulty variant of LoadStruct: text that does not decode is passed
\* over like a file that does not exist.
LoadStructIgnoreDecode(svc, key, out, fault, fs, ds) ==
    LET p == StructPath(svc, key)
        st == IF fault = "read" THEN "error" ELSE ReadStatus(p, fs, ds)
    IN  IF st = "notexist" THEN [err |-> "nil", out |-> out]
        ELSE IF st = "error" THEN [err |-> "read", out |-> out]
        ELSE IF fs[p].t \in {"empty", "malformed"} \/ out.kind # "ptr"
        THEN [err |-> "nil", out |-> out]
        ELSE LET u == Unmarshal(fs[p], out.val)
             IN  [err |-> u.err, out |-> [out EXCEPT !.val = u.val]]

\* LoadStruct: [err, out].  json.Unmarshal wants a non-nil pointer, and
\* says so only after it found the text to be valid JSON.
LoadStruct(svc, key, out, fault, fs, ds) ==
    LET p == StructPath(svc, key)
        st == IF fault = "read" THEN "error" ELSE ReadStatus(p, fs, ds)
    IN  IF st = "notexist" THEN [err |-> "nil", out |-> out]
        ELSE IF st = "error" THEN [err |-> "read", out |-> out]
        ELSE IF fs[p].t \in {"empty", "malformed"} \/ out.kind # "ptr"
        THEN [err |-> "unmarshal", out |-> out]
        ELSE LET u == Unmarshal(fs[p], out.val)
             IN  [err |-> u.err, out |-> [out EXCEPT !.val = u.val]]

\* The six directories createServiceInstance creates, in its order.
DirsOf(svc) == << svc.RootDir.v, svc.ConfigDir.v, svc.DataDir.v,
                  svc.CacheDir.v, svc.WorkspaceDir.v, svc.UserHomeDir.v >>

\* Two faulty variants of LoadOrCreate: one does not write the defaults
\* when there is no settings file, the other falls back to the defaults,
\* and writes them, when the settings file does not decode.
LoadOrCreateNoSave(d, found, fault, fs, ds) ==
    IF found = "ok"
    THEN LET u == Unmarshal(fs[d.ConfigPath.v], V("Service", d))
         IN  IF u.err # "nil"
             THEN [err |-> "unmarshal", svc |-> ZeroService, files |-> fs]
             ELSE [err |-> "nil", svc |-> u.val.v, files |-> fs]
    ELSE IF found = "notexist"
    THEN [err |-> "nil", svc |-> d, files |-> fs]
    ELSE [err |-> "read", svc |-> ZeroService, files |-> fs]

LoadOrCreateFallback(d, found, fault, fs, ds) ==
    IF found \in {"ok", "notexist"}
    THEN LET u == IF found = "ok"
                  THEN Unmarshal(fs[d.ConfigPath.v], V("Service", d))
                  ELSE [err |-> "unmarshal", val |-> V("Service", d)]
             w == Save(d, fault, fs, ds)
         IN  IF u.err = "nil"
             THEN [err |-> "nil", svc |-> u.val.v, files |-> fs]
             ELSE IF w.err # "nil"
             THEN [err |-> "write", svc |-> ZeroService, files |-> w.files]
             ELSE [err |-> "nil", svc |-> d, files |-> w.files]
    ELSE [err |-> "read", svc |-> ZeroService, files |-> fs]

\* A faulty variant of LoadOrCreate: the document is decoded into an empty
\* record.
LoadOrCreateFromZero(d, found, fault, fs, ds) ==
    IF found = "ok"
    THEN LET u == Unmarshal(fs[d.ConfigPath.v], V("Service", ZeroService))
         IN  IF u.err # "nil"
             THEN [err |-> "unmarshal", svc |-> ZeroService, files |-> fs]
             ELSE [err |-> "nil", svc |-> u.val.v, files |-> fs]
    ELSE IF found = "notexist"
    THEN LET w == Save(d, fault, fs, ds)
         IN  IF w.err # "nil"
             THEN [err |-> "write", svc |-> ZeroService, files |-> w.files]
             ELSE [err |-> "nil", svc |-> d, files |-> w.files]
    ELSE [err |-> "read", svc |-> ZeroService, files |-> fs]

\* Load or create the configuration (the end of createServiceInstance):
\* [err, svc, files].  d is the record built so far, found what reading
\* the settings file gave.
LoadOrCreate(d, found, fault, fs, ds) ==
    IF found = "ok"
    THEN LET u == Unmarshal(fs[d.ConfigPath.v], V("Service", d))
         IN  IF u.err # "nil"
             THEN [err |-> "unmarshal", svc |-> ZeroService, files |-> fs]
             ELSE [err |-> "nil", svc |-> u.val.v, files |-> fs]
    ELSE IF found = "notexist"
    THEN LET w == Save(d, fault, fs, ds)
         IN  IF w.err # "nil"
             THEN [err |-> "write", svc |-> ZeroService, files |-> w.files]
             ELSE [err |-> "nil", svc |-> d, files |-> w.files]
    ELSE [err |-> "read", svc |-> ZeroService, files |-> fs]

\* createServiceInstance: [err, svc, files, dirs, found], found being what
\* reading the settings file gave ("" when it was not reached).  xdg's
\* DataFile and CacheFile create the parent of the path they return.
createServiceInstance(fault, fs, ds) ==
    LET d == DefaultService
        list == DirsOf(d)
        ds1 == ds \cup Prefixes(Dir(d.RootDir.v))
        ds2 == ds1 \cup Prefixes(Dir(d.CacheDir.v))
        bad == {i \in DOMAIN list :
                   i = FailingMkdir(fault) \/ ~CanMkdirAll(list[i], fs)}
        stop == IF bad = {} THEN Len(list) + 1
                ELSE CHOOSE i \in bad : \A j \in bad : i <= j
        ds3 == ds2 \cup UNION {Prefixes(list[i]) : i \in 1..(stop - 1)}
        found == IF fault = "read" THEN "error"
                 ELSE ReadStatus(d.ConfigPath.v, fs, ds3)
        fail(e, dd) == [err |-> e, svc |-> ZeroService, files |-> fs,
                        dirs |-> dd, found |-> ""]
    IN  IF fault = "home" THEN fail("home", ds)
        ELSE IF fault = "data" THEN fail("data", ds)
        ELSE IF fault = "cache" THEN fail("cache", ds1)
        ELSE IF bad # {} THEN fail("mkdir", ds3)
        ELSE [dirs |-> ds3, found |-> found] @@ LoadOrCreate(d, found, fault, fs, ds3)

-----------------------------------------------------------------------------
(* The calls the model makes.  Each action binds r to what the call        *)
(* returns and takes the next state from it.                               *)

BoundKeys == {"configPath", "userHomeDir", "rootDir", "cacheDir", "configDir",
              "dataDir", "workspaceDir", "default_route", "features", "language"}

\* Keys passed to Get and Set: the bound keys, other spellings of two of
\* them, a key of no field, and the tag of the field that is not serialized.
Keys == BoundKeys \cup {"LANGUAGE", "ROOTDIR", "nonexistent", "-"}

AltPath == <<"/", "alt">>

\* Values passed to Set.
SetValues == {
    Str(<<>>), Str(<<"de">>), Str(<<InvalidUTF8>>), Str(AltPath),
    V("[]string", <<"beta">>), NilOf("[]string"),
    V("int", <<"42">>), UntypedNil }

Ptr(type, val) == [kind |-> "ptr", type |-> type, val |-> val]

\* Output arguments passed to Get.
GetSlots == {
    Ptr("string", Str(<<"old">>)),
    Ptr("[]string", NilOf("[]string")),
    Ptr("interface {}", UntypedNil),
    Ptr("int", V("int", <<"0">>)),
    [kind |-> "nilptr", type |-> "string", val |-> UntypedNil],
    [kind |-> "value", type |-> "", val |-> Str(<<"old">>)],
    [kind |-> "nil", type |-> "", val |-> UntypedNil] }

CustomConfig(apiKey, timeout) ==
    V("CustomConfig", [APIKey |-> Str(apiKey), Timeout |-> V("int", <<timeout>>)])

ZeroCustomConfig == CustomConfig(<<>>, "0")

\* Names, values and output arguments passed to SaveStruct and LoadStruct.
StructKeys == {"custom", "non-existent"}
StructValues == {CustomConfig(<<"12345">>, "30"), ZeroCustomConfig,
                 V("chan int", <<>>)}
StructSlots == {Ptr("CustomConfig", ZeroCustomConfig),
                Ptr("CustomConfig", CustomConfig(<<"old">>, "7"))}

\* The narrower inputs of SpecSeq.  userHomeDir, cacheDir, dataDir and
\* workspaceDir run through the code as rootDir does, default_route as
\* language does.
SeqKeys == {"configPath", "configDir", "rootDir", "language", "features"}
SeqValues == {Str(<<>>), Str(<<"de">>), Str(<<InvalidUTF8>>),
              V("[]string", <<"beta">>), NilOf("[]string")}
SeqSlots == {Ptr("string", Str(<<"old">>)), Ptr("[]string", NilOf("[]string"))}
SeqStructKeys == {"custom"}
SeqStructValues == {CustomConfig(<<"12345">>, "30"), ZeroCustomConfig,
                    CustomConfig(<<InvalidUTF8>>, "7")}

\* The settings files a run may start with.
TestDoc == JSON("object", ("language" :> JSON("string", <<"fr">>)) @@
                          ("features" :> JSON("array", <<"beta-testing">>)))
BadTypeDoc == JSON("object", ("language" :> JSON("number", <<"5">>)))
MovedDoc == JSON("object", ("dataDir" :> JSON("string", AltPath)))
InitialDocs == {EmptyContent, MalformedContent, JSONNull, TestDoc, BadTypeDoc,
                MovedDoc}

\* The files a run may find under the name "custom" in the config
\* directory: the document null, and text that is not JSON.
InitialStructDocs == {JSONNull, MalformedContent}

BaseDirs == {<<"/">>} \cup Prefixes(HomeDir)

Call(op, key, arg, slot, out, err, fault, found) ==
    [op |-> op, key |-> key, arg |-> arg, slot |-> slot, out |-> out,
     err |-> err, fault |-> fault, found |-> found]

NoCall == Call("", "", UntypedNil, NoSlot, NoSlot, "nil", "none", "")

NoPrior == [set |-> NoCall, new |-> NoCall, svc |-> ZeroService]

\* No goroutine is running.
NoConc == [mem |-> <<>>, th |-> <<>>]

\* The disks a run may start on: one with the home directory alone, one
\* with a settings file, one with a file named "custom" and no settings
\* file.
Disk(fs, ds) == [files |-> fs, dirs |-> ds]

EmptyDisk == Disk(<<>>, BaseDirs)

DiskWithSettings(c) ==
    Disk(DefaultService.ConfigPath.v :> c,
         BaseDirs \cup Prefixes(DefaultService.ConfigDir.v))

DiskWithStruct(c) ==
    Disk(StructPath(DefaultService, "custom") :> c,
         BaseDirs \cup Prefixes(DefaultService.ConfigDir.v))

InitFrom(disks) ==
    /\ s = ZeroService
    /\ inited = FALSE
    /\ \E d \in disks : files = d.files /\ dirs = d.dirs
    /\ last = NoCall
    /\ lastSet = NoCall
    /\ prior = NoPrior
    /\ nnew = 0
    /\ nops = 0
    /\ aborted = FALSE
    /\ conc = NoConc

Init ==
    InitFrom({EmptyDisk} \cup {DiskWithSettings(c) : c \in InitialDocs}
                        \cup {DiskWithStruct(c) : c \in InitialStructDocs})

\* config.New(): the caller holds what it returns.
NewWith(faults) ==
    /\ ~aborted
    /\ \E fault \in faults :
         \E r \in {createServiceInstance(fault, files, dirs)} :
             /\ s' = r.svc
             /\ inited' = (r.err = "nil")
             /\ files' = r.files
             /\ dirs' = r.dirs
             /\ last' = Call("New", "", UntypedNil, NoSlot, NoSlot, r.err,
                             FaultMet(fault, r.err), r.found)
    /\ lastSet' = NoCall
    /\ prior' = [set |-> lastSet,
                 new |-> IF last.op = "New" THEN last ELSE NoCall,
                 svc |-> s]
    /\ nnew' = nnew + 1
    /\ UNCHANGED <<nops, aborted>>

CanCall(max) == inited /\ ~aborted /\ nops < max

\* s.Save()
SaveWith(faults, max) ==
    /\ CanCall(max)
    /\ \E fault \in faults :
         \E r \in {Save(s, fault, files, dirs)} :
             /\ files' = r.files
             /\ last' = Call("Save", "", UntypedNil, NoSlot, NoSlot, r.err,
                             FaultMet(fault, r.err), "")
    /\ nops' = nops + 1
    /\ UNCHANGED <<s, inited, dirs, lastSet, prior, nnew, aborted, conc>>

\* s.Get(key, out)
GetWith(keys, slots, max) ==
    /\ CanCall(max)
    /\ \E key \in keys, slot \in slots :
         \E r \in {Get(s, key, slot)} :
             /\ s' = r.svc
             /\ last' = Call("Get", key, UntypedNil, slot, r.out, r.err, "none", "")
    /\ nops' = nops + 1
    /\ UNCHANGED <<inited, files, dirs, lastSet, prior, nnew, aborted, conc>>

\* s.Set(key, v)
SetWith(keys, values, faults, max) ==
    /\ CanCall(max)
    /\ \E key \in keys, v \in values, fault \in faults :
         \E r \in {Set(s, key, v, fault, files, dirs)} :
             /\ s' = r.svc
             /\ files' = r.files
             /\ last' = Call("Set", key, v, NoSlot, NoSlot, r.err,
                             FaultMet(fault, r.err), "")
             /\ lastSet' = last'
             /\ aborted' = (r.err = "panic")
    /\ nops' = nops + 1
    /\ UNCHANGED <<inited, dirs, prior, nnew, conc>>

\* s.SaveStruct(key, data)
SaveStructWith(keys, values, faults, max) ==
    /\ CanCall(max)
    /\ \E key \in keys, data \in values, fault \in faults :
         \E r \in {SaveStruct(s, key, data, fault, files, dirs)} :
             /\ files' = r.files
             /\ last' = Call("SaveStruct", key, data, NoSlot, NoSlot, r.err,
                             FaultMet(fault, r.err), "")
    /\ nops' = nops + 1
    /\ UNCHANGED <<s, inited, dirs, lastSet, prior, nnew, aborted, conc>>

\* s.LoadStruct(key, out)
LoadStructWith(keys, slots, faults, max) ==
    /\ CanCall(max)
    /\ \E key \in keys, slot \in slots, fault \in faults :
         \E r \in {LoadStruct(s, key, slot, fault, files, dirs)} :
             last' = Call("LoadStruct", key, UntypedNil, slot, r.out, r.err,
                          FaultMet(fault, r.err),
                          ReadStatus(StructPath(s, key), files, dirs))
    /\ nops' = nops + 1
    /\ UNCHANGED <<s, inited, files, dirs, lastSet, prior, nnew, aborted, conc>>

-----------------------------------------------------------------------------
(* Spec: one run of the program.  It creates the service once, under any  *)
(* fault of the environment, and makes up to MaxOps calls on it.          *)

New == nnew = 0 /\ NewWith(Faults \cup MkdirFaults) /\ UNCHANGED conc
CallSave == SaveWith(WriteFaults, MaxOps)
CallGet == GetWith(Keys, GetSlots, MaxOps)
CallSet == SetWith(Keys, SetValues, WriteFaults, MaxOps)
CallSaveStruct == SaveStructWith(StructKeys, StructValues, WriteFaults, MaxOps)
CallLoadStruct == LoadStructWith(StructKeys, StructSlots, ReadFaults, MaxOps)

Next ==
    \/ New
    \/ CallSave
    \/ CallGet
    \/ CallSet
    \/ CallSaveStruct
    \/ CallLoadStruct

Spec == Init /\ [][Next]_vars

-----------------------------------------------------------------------------
(* SpecSeq: sequences of calls and restarts.  No fault is injected; New   *)
(* is called up to MaxNew times, at any point, and up to MaxSeq calls are *)
(* made on the services it returns.  The first New finds no settings      *)
(* file; the later ones find what the calls before them wrote.            *)

InitSeq == InitFrom({EmptyDisk, DiskWithStruct(JSONNull)})

SeqNew == nnew < MaxNew /\ NewWith({"none"}) /\ UNCHANGED conc
SeqSave == SaveWith({"none"}, MaxSeq)
SeqGet == GetWith(SeqKeys, SeqSlots, MaxSeq)
SeqSet == SetWith(SeqKeys, SeqValues, {"none"}, MaxSeq)
SeqSaveStruct == SaveStructWith(SeqStructKeys, SeqStructValues, {"none"}, MaxSeq)
SeqLoadStruct == LoadStructWith(SeqStructKeys, StructSlots, {"none"}, MaxSeq)

NextSeq ==
    \/ SeqNew
    \/ SeqSave
    \/ SeqGet
    \/ SeqSet
    \/ SeqSaveStruct
    \/ SeqLoadStruct

SpecSeq == InitSeq /\ [][NextSeq]_vars

-----------------------------------------------------------------------------
(* SpecConc: goroutines calling Set and Get on one service at once, as    *)
(* the test "Concurrent access" does.  The service takes no lock, so the  *)
(* steps of the calls interleave: a field is assigned one word at a time, *)
(* the record is marshalled, the file is opened (and truncated), then     *)
(* written from its start.                                                *)

MaxProcs == 2

\* The bytes of the strings the goroutines use, and the strings that the
\* first bytes of a longer one make.
ByteLen ==
    ("en" :> 2) @@ ("english" :> 7) @@ ("beta" :> 4) @@ (ReplacementChar :> 3)

PrefixOf == ("english" :> (2 :> "en"))

\* What stands for memory read past the end of a value.
Unreadable == "<unreadable>"

\* A string in memory is two words, a slice three: the pointer to the
\* bytes or elements (named here by what it points to), and the length
\* (the capacity is written with the length).
StringHeader(x) == [ptr |-> x.v[1], len |-> ByteLen[x.v[1]]]
SliceHeader(x) == [ptr |-> IF x.nil THEN "nil" ELSE <<"array", x.v>>,
                   len |-> Len(x.v)]

HeadersOf(svc) ==
    [Language |-> StringHeader(svc.Language),
     Features |-> SliceHeader(svc.Features)]

\* The value a reader makes of the words it finds.  A length beyond what
\* the pointer points to reads the memory that follows it.
ReadString(h) ==
    IF h.len = ByteLen[h.ptr] THEN Str(<<h.ptr>>)
    ELSE IF h.len < ByteLen[h.ptr] THEN Str(<<PrefixOf[h.ptr][h.len]>>)
    ELSE Str(<<h.ptr, Unreadable>>)

ReadSlice(h) ==
    IF h.ptr = "nil"
    THEN [t |-> "[]string", nil |-> TRUE,
          v |-> [i \in 1..h.len |-> Unreadable]]
    ELSE LET a == h.ptr[2]
         IN  V("[]string", [i \in 1..h.len |->
                               IF i <= Len(a) THEN a[i] ELSE Unreadable])

ReadRecord(svc, mem) ==
    [svc EXCEPT !.Language = ReadString(mem.Language),
                !.Features = ReadSlice(mem.Features)]

\* The record as json.MarshalIndent gets to see it: the set of outcomes of
\* reading its strings.  Elements behind a nil pointer cannot be read (the
\* goroutine panics); memory past the end of a value holds any bytes, or
\* cannot be read either.
Garbled(x) ==
    [x EXCEPT !.v = [i \in DOMAIN x.v |->
                        IF x.v[i] = Unreadable THEN InvalidUTF8 ELSE x.v[i]]]

MarshalViews(svc) ==
    LET past(x) == \E i \in DOMAIN x.v : x.v[i] = Unreadable
        seen == [svc EXCEPT !.Language = Garbled(svc.Language),
                            !.Features = Garbled(svc.Features)]
        view(panic) == [panic |-> panic, svc |-> seen]
    IN  IF svc.Features.nil /\ past(svc.Features) THEN {view(TRUE)}
        ELSE IF past(svc.Features) THEN {view(TRUE), view(FALSE)}
        ELSE {view(FALSE)}

\* The bytes of the two members the goroutines change, as MarshalIndent
\* writes them; the rest of the document is the same in every document
\* they write.
RECURSIVE SumLen(_)
SumLen(v) == IF Len(v) = 0 THEN 0 ELSE ByteLen[Head(v)] + SumLen(Tail(v))

MemberSize(j) ==
    IF j.t = "string" THEN 2 + SumLen(j.v)
    ELSE IF j.t = "null" THEN 4
    ELSE IF Len(j.v) = 0 THEN 2
    ELSE 2 + SumLen(j.v) + 6 * Len(j.v) + (Len(j.v) - 1) + Len(j.v) + 3

RECURSIVE DocSize(_)
DocSize(doc) ==
    IF doc.t = "empty" THEN 0
    ELSE IF doc.t = "malformed"
    THEN (IF Len(doc.v) = 0 THEN 0 ELSE DocSize(doc.v[1]))
    ELSE MemberSize(doc.v["language"]) + MemberSize(doc.v["features"])

\* write(2) of data at the start of a file holding old: data replaces the
\* first bytes, and when old is longer its tail stays behind the document.
Overlay(data, old) ==
    IF DocSize(old) <= DocSize(data) THEN data
    ELSE [t |-> "malformed", v |-> <<old>>]

\* The calls the goroutines make.
ConcCalls == {
    [op |-> "Set", key |-> "language", v |-> Str(<<"en">>)],
    [op |-> "Set", key |-> "language", v |-> Str(<<"english">>)],
    [op |-> "Set", key |-> "features", v |-> V("[]string", <<"beta">>)],
    [op |-> "Set", key |-> "features", v |-> NilOf("[]string")],
    [op |-> "Get", key |-> "language", v |-> UntypedNil] }

Idle == [pc |-> "idle", call |-> [op |-> "", key |-> "", v |-> UntypedNil],
         todo |-> {}, data |-> EmptyContent, path |-> <<>>]

Procs == DOMAIN conc.th

InitConc == InitFrom({EmptyDisk})

\* New, and then the goroutines are started.
ConcNew ==
    /\ nnew = 0
    /\ NewWith({"none"})
    /\ conc' = [mem |-> HeadersOf(s'), th |-> [p \in 1..MaxProcs |-> Idle]]

Step(p, th) == conc' = [conc EXCEPT !.th[p] = th]

\* A goroutine enters Set or Get: the key is looked up and the types are
\* checked (config.go:219-234, 308-322).  Nothing shared is written yet.
ConcCall(p) ==
    /\ ~aborted /\ conc.th[p].pc = "idle"
    /\ \E c \in ConcCalls :
         /\ FieldFor(c.key) # 0
         /\ c.op = "Set" => AssignableTo(c.v.t, ServiceFields[FieldFor(c.key)].type)
         /\ Step(p, [conc.th[p] EXCEPT
                        !.call = c,
                        !.pc = IF c.op = "Set" THEN "assign" ELSE "get",
                        !.todo = IF c.op = "Set" THEN {"ptr", "len"} ELSE {}])
    /\ UNCHANGED <<s, inited, files, dirs, last, lastSet, prior, nnew, nops,
                   aborted>>

\* fieldVal.Set(newVal) (config.go:323) stores one word of the value.
ConcAssignWord(p) ==
    LET th == conc.th[p]
        name == ServiceFields[FieldFor(th.call.key)].name
        new == IF name = "Language" THEN StringHeader(th.call.v)
               ELSE SliceHeader(th.call.v)
    IN  /\ ~aborted /\ th.pc = "assign"
        /\ \E w \in th.todo :
             /\ conc' = [conc EXCEPT
                            !.mem[name][w] = new[w],
                            !.th[p].todo = @ \ {w},
                            !.th[p].pc = IF th.todo = {w} THEN "marshal"
                                         ELSE "assign"]
             /\ s' = ReadRecord(s, conc'.mem)
        /\ UNCHANGED <<inited, files, dirs, last, lastSet, prior, nnew, nops,
                       aborted>>

\* Save marshals the record as it finds it (config.go:191).
ConcMarshal(p) ==
    /\ ~aborted /\ conc.th[p].pc = "marshal"
    /\ \E view \in MarshalViews(s) :
         IF view.panic
         THEN /\ aborted' = TRUE
              /\ Step(p, [conc.th[p] EXCEPT !.pc = "panic"])
         ELSE /\ aborted' = aborted
              /\ Step(p, [conc.th[p] EXCEPT
                             !.pc = "open",
                             !.data = Marshal(V("Service", view.svc)).data,
                             !.path = s.ConfigPath.v])
    /\ UNCHANGED <<s, inited, files, dirs, last, lastSet, prior, nnew, nops>>

\* os.WriteFile opens the file with O_TRUNC (config.go:196) ...
ConcOpen(p) ==
    LET th == conc.th[p]
    IN  /\ ~aborted /\ th.pc = "open"
        /\ CanOpenForWrite(th.path, files, dirs)
        /\ files' = (th.path :> EmptyContent) @@ files
        /\ Step(p, [th EXCEPT !.pc = "write"])
        /\ UNCHANGED <<s, inited, dirs, last, lastSet, prior, nnew, nops,
                       aborted>>

\* ... writes the document from the start of the file, and Set returns.
ConcWrite(p) ==
    LET th == conc.th[p]
    IN  /\ ~aborted /\ th.pc = "write"
        /\ files' = (th.path :> Overlay(th.data, files[th.path])) @@ files
        /\ Step(p, [th EXCEPT !.pc = "done"])
        /\ last' = Call("Set", th.call.key, th.call.v, NoSlot, NoSlot, "nil",
                        "none", "")
        /\ UNCHANGED <<s, inited, dirs, lastSet, prior, nnew, nops, aborted>>

\* Get copies the field's words to the output (config.go:236) and returns.
ConcGet(p) ==
    LET th == conc.th[p]
    IN  /\ ~aborted /\ th.pc = "get"
        /\ Step(p, [th EXCEPT !.pc = "done"])
        /\ last' = Call("Get", th.call.key, UntypedNil,
                        Ptr("string", Str(<<>>)),
                        Ptr("string", ReadString(conc.mem.Language)),
                        "nil", "none", "")
        /\ UNCHANGED <<s, inited, files, dirs, lastSet, prior, nnew, nops,
                       aborted>>

NextConc ==
    \/ ConcNew
    \/ \E p \in Procs : ConcCall(p)
    \/ \E p \in Procs : ConcAssignWord(p)
    \/ \E p \in Procs : ConcMarshal(p)
    \/ \E p \in Procs : ConcOpen(p)
    \/ \E p \in Procs : ConcWrite(p)
    \/ \E p \in Procs : ConcGet(p)

SpecConc == InitConc /\ [][NextConc]_vars

-----------------------------------------------------------------------------
(* Key-value files (formats.go).  A file name or a key is the sequence of *)
(* its pieces, "." and "/" being pieces of their own: "a.JSON" is         *)
(* <<"a", ".", "JSON">>.  A mapping is a function from keys to Go values; *)
(* a number holds its shortest decimal text, 1.5 being <<"1", ".", "5">>. *)

MaxKV == 2

\* strings.ToLower, for the pieces that hold upper-case letters.
LowerTable == ("JSON" :> "json") @@ ("Yaml" :> "yaml") @@ ("XML" :> "xml")

ToLower(v) ==
    [i \in DOMAIN v |-> IF v[i] \in DOMAIN LowerTable THEN LowerTable[v[i]]
                        ELSE v[i]]

\* filepath.Ext: the suffix from the last dot of the last element of the
\* path, empty when that element has no dot.
RECURSIVE ExtFrom(_, _)
ExtFrom(path, i) ==
    IF i = 0 THEN <<>>
    ELSE IF path[i] = "/" THEN <<>>
    ELSE IF path[i] = "." THEN SubSeq(path, i, Len(path))
    ELSE ExtFrom(path, i - 1)

Ext(path) == ExtFrom(path, Len(path))

\* The switch of GetConfigFormat over an extension.
FormatOfExt(ext) ==
    IF ext = <<".", "json">> THEN [err |-> "nil", format |-> "json"]
    ELSE IF ext = <<".", "yaml">> \/ ext = <<".", "yml">>
    THEN [err |-> "nil", format |-> "yaml"]
    ELSE IF ext = <<".", "ini">> THEN [err |-> "nil", format |-> "ini"]
    ELSE IF ext = <<".", "xml">> THEN [err |-> "nil", format |-> "xml"]
    ELSE [err |-> "unsupported", format |-> "none"]

\* A faulty variant of GetConfigFormat: the extension is compared as it is
\* written.
GetConfigFormatCaseSensitive(path) == FormatOfExt(Ext(path))

GetConfigFormat(path) == FormatOfExt(ToLower(Ext(path)))

\* The elements of a name, between its slashes, each as one string.
RECURSIVE Elements(_)
Elements(name) ==
    IF Len(name) = 0 THEN <<"">>
    ELSE LET rest == Elements(Tail(name))
         IN  IF Head(name) = "/" THEN <<"">> \o rest
             ELSE <<Head(name) \o Head(rest)>> \o Tail(rest)

\* filepath.Join(dir, name) for a clean absolute dir: the elements of name
\* are put after dir, and the result is cleaned ("" and "." are dropped,
\* ".." drops the element before it).
RECURSIVE CleanOnto(_, _)
CleanOnto(base, elems) ==
    IF Len(elems) = 0 THEN base
    ELSE CleanOnto(IF Head(elems) \in {"", "."} THEN base
                   ELSE IF Head(elems) = ".."
                   THEN (IF Len(base) > 1 THEN Dir(base) ELSE base)
                   ELSE base \o <<Head(elems)>>,
                   Tail(elems))

JoinName(dir, name) == CleanOnto(dir, Elements(name))

\* fmt.Sprintf("%v", value)
Sprint(x) == IF x.nil THEN <<"<nil>">> ELSE x.v

Whole(v) == \A i \in DOMAIN v : v[i] # "."

\* --- JSON: json.MarshalIndent of the map, json.Unmarshal into a map.
EncodeJSON(x) ==
    IF x.nil THEN JSONNull
    ELSE IF x.t = "string" THEN JSON("string", ToValidUTF8(x.v))
    ELSE IF x.t \in {"int", "float64"} THEN JSON("number", x.v)
    ELSE JSON("bool", x.v)

DecodeJSON(j) ==
    IF j.t = "null" THEN UntypedNil
    ELSE IF j.t = "string" THEN Str(j.v)
    ELSE IF j.t = "number" THEN V("float64", j.v)
    ELSE V("bool", j.v)

\* --- YAML (yaml.v2): a scalar is written plain, quoted when it is a
\* string that plain would read back as something else, and as base64
\* under !!binary when it is a string that is not valid UTF-8.
NumberPieces == {"1", "2", "5", "123", "8080"}

ResolvePlain(v) ==
    IF v \in {<<"true">>, <<"false">>} THEN V("bool", v)
    ELSE IF v \in {<<"null">>, <<"~">>, <<>>} THEN UntypedNil
    ELSE IF Len(v) = 1 /\ v[1] \in NumberPieces THEN V("int", v)
    ELSE IF Len(v) = 3 /\ v[1] \in NumberPieces /\ v[2] = "."
            /\ v[3] \in NumberPieces
    THEN V("float64", v)
    ELSE Str(v)

EncodeYAML(x) ==
    IF x.nil THEN [style |-> "plain", v |-> <<"null">>]
    ELSE IF x.t # "string" THEN [style |-> "plain", v |-> x.v]
    ELSE IF \E i \in DOMAIN x.v : x.v[i] = InvalidUTF8
    THEN [style |-> "binary", v |-> x.v]
    ELSE IF ResolvePlain(x.v).t # "string" THEN [style |-> "quoted", v |-> x.v]
    ELSE [style |-> "plain", v |-> x.v]

DecodeYAML(y) == IF y.style = "plain" THEN ResolvePlain(y.v) ELSE Str(y.v)

\* --- INI (ini.v1): strings.SplitN(key, ".", 2) gives the section and the
\* key name; Section("") is the default section.
FirstDot(key) ==
    IF \E i \in DOMAIN key : key[i] = "."
    THEN CHOOSE i \in DOMAIN key :
            key[i] = "." /\ \A j \in 1..(i - 1) : key[j] # "."
    ELSE 0

DefaultSection == <<"DEFAULT">>

SectionOf(key) ==
    IF FirstDot(key) <= 1 THEN DefaultSection
    ELSE SubSeq(key, 1, FirstDot(key) - 1)

KeyNameOf(key) ==
    IF FirstDot(key) = 0 THEN key
    ELSE SubSeq(key, FirstDot(key) + 1, Len(key))

INITarget(key) == <<SectionOf(key), KeyNameOf(key)>>

\* The files INIFormat.Save can build from a mapping: NewKey refuses an
\* empty key name, and gives a key that is already in its section the new
\* value, so of the entries that go to one key of one section the last in
\* the map's iteration order stays, and that order is any.
INIDocs(data) ==
    LET targets == {INITarget(k) : k \in DOMAIN data}
        texts == {Sprint(data[k]) : k \in DOMAIN data}
    IN  IF \E k \in DOMAIN data : Len(KeyNameOf(k)) = 0 THEN {}
        ELSE {d \in [targets -> texts] :
                 \A tg \in targets :
                    \E k \in DOMAIN data :
                       INITarget(k) = tg /\ d[tg] = Sprint(data[k])}

\* INIFormat.Load: section name, ".", key name.
INIEntries(doc) ==
    LET keyOf(tg) == tg[1] \o <<".">> \o tg[2]
        tgOf(k) == CHOOSE tg \in DOMAIN doc : keyOf(tg) = k
    IN  [k \in {keyOf(tg) : tg \in DOMAIN doc} |-> Str(doc[tgOf(k)])]

\* --- XML: one <entry> per key with the value's text; encoding/xml writes
\* U+FFFD for what is not a character of XML.
EscapeText(v) == ToValidUTF8(v)

XMLEntries(data) ==
    LET keyOf(k) == EscapeText(k)
    IN  {[Key |-> keyOf(k), Value |-> EscapeText(Sprint(data[k]))] :
            k \in DOMAIN data}

\* XMLFormat.Load: a later entry of a key replaces an earlier one; the
\* entries Save writes have one each.
XMLMap(entries) ==
    [k \in {e.Key : e \in entries} |->
        Str((CHOOSE e \in entries : e.Key = k).Value)]

\* The content of a key-value file.
KVFile(format, v) == [t |-> format, v |-> v]

\* ConfigFormat.Save: the set of outcomes [err, files].
FormatSave(format, path, data, fault, fs, ds) ==
    IF format = "json"
    THEN {WriteFile(path, KVFile("json", [k \in DOMAIN data |-> EncodeJSON(data[k])]),
                    fault, fs, ds)}
    ELSE IF format = "yaml"
    THEN {WriteFile(path, KVFile("yaml", [k \in DOMAIN data |-> EncodeYAML(data[k])]),
                    fault, fs, ds)}
    ELSE IF format = "xml"
    THEN {WriteFile(path, KVFile("xml", XMLEntries(data)), fault, fs, ds)}
    ELSE IF INIDocs(data) = {} THEN {[err |-> "key", files |-> fs]}
    ELSE {WriteFile(path, KVFile("ini", d), fault, fs, ds) : d \in INIDocs(data)}

\* ConfigFormat.Load: [err, out].  A file that cannot be read is an error
\* in every format; an empty file is an empty mapping in YAML and INI, and
\* no document in JSON and XML.
FormatLoad(format, path, fault, fs, ds) ==
    LET st == IF fault = "read" THEN "error" ELSE ReadStatus(path, fs, ds)
        none == <<>>
    IN  IF st # "ok" THEN [err |-> "read", out |-> none]
        ELSE IF fs[path].t = "empty"
        THEN (IF format \in {"yaml", "ini"} THEN [err |-> "nil", out |-> none]
              ELSE [err |-> "decode", out |-> none])
        ELSE IF fs[path].t # format THEN [err |-> "decode", out |-> none]
        ELSE IF format = "json"
        THEN [err |-> "nil",
              out |-> [k \in DOMAIN fs[path].v |-> DecodeJSON(fs[path].v[k])]]
        ELSE IF format = "yaml"
        THEN [err |-> "nil",
              out |-> [k \in DOMAIN fs[path].v |-> DecodeYAML(fs[path].v[k])]]
        ELSE IF format = "xml"
        THEN [err |-> "nil", out |-> XMLMap(fs[path].v)]
        ELSE [err |-> "nil", out |-> INIEntries(fs[path].v)]

\* A faulty variant of SaveKeyValues: the file goes to the data directory.
SaveKeyValuesInDataDir(svc, key, data, fault, fs, ds) ==
    LET f == GetConfigFormat(key)
    IN  IF f.err # "nil" THEN {[err |-> f.err, files |-> fs]}
        ELSE FormatSave(f.format, JoinName(svc.DataDir.v, key), data, fault,
                        fs, ds)

\* SaveKeyValues: the set of outcomes [err, files].
SaveKeyValues(svc, key, data, fault, fs, ds) ==
    LET f == GetConfigFormat(key)
    IN  IF f.err # "nil" THEN {[err |-> f.err, files |-> fs]}
        ELSE FormatSave(f.format, JoinName(svc.ConfigDir.v, key), data, fault,
                        fs, ds)

\* LoadKeyValues: [err, out].
LoadKeyValues(svc, key, fault, fs, ds) ==
    LET f == GetConfigFormat(key)
    IN  IF f.err # "nil" THEN [err |-> f.err, out |-> <<>>]
        ELSE FormatLoad(f.format, JoinName(svc.ConfigDir.v, key), fault, fs, ds)

\* The names and the mappings of the calls.
KVNames == {
    <<"settings", ".", "json">>, <<"a", ".", "JSON">>,
    <<"a", ".", "yaml">>, <<"a", ".", "Yaml">>, <<"a", ".", "yml">>,
    <<"a", ".", "ini">>, <<"a", ".", "XML">>,
    <<"a", ".", "txt">>, <<"noext">>, <<>>, <<"json">>,
    <<"a", ".", "json", ".", "bak">>, <<".", "json">>,
    <<"sub", ".", "ini", "/", "data">>, <<"sub", "/", "a", ".", "json">>,
    <<".", ".", "/", "up", ".", "xml">> }

testData ==
    (<<"key1">> :> Str(<<"value1">>)) @@ (<<"key2">> :> V("float64", <<"123">>))
    @@ (<<"key3">> :> V("bool", <<"true">>))

KVMappings == {
    <<>>,
    testData,
    (<<"x">> :> Str(<<"1">>)) @@ (<<"DEFAULT", ".", "x">> :> Str(<<"2">>)),
    (<<"db", ".", "host">> :> Str(<<"localhost">>))
        @@ (<<"db", ".", "port">> :> V("int", <<"8080">>))
        @@ (<<"ratio">> :> V("float64", <<"1", ".", "5">>)),
    (<<"k">> :> Str(<<InvalidUTF8>>)) @@ (<<"n">> :> UntypedNil),
    (<<".", "a">> :> Str(<<"true">>)),
    (<<"a", ".">> :> Str(<<"v">>)) }

\* A mapping as the argument or the result of a call.
Map(m) == V("map[string]interface {}", m)
MapSlot(m) == [kind |-> "map", type |-> "map[string]interface {}", val |-> Map(m)]

\* A disk with a key-value file of a name GetConfigFormat does not know.
DiskWithKV ==
    Disk(JoinName(DefaultService.ConfigDir.v, <<"a", ".", "txt">>)
            :> KVFile("json", [k \in DOMAIN testData |-> EncodeJSON(testData[k])]),
         BaseDirs \cup Prefixes(DefaultService.ConfigDir.v))

\* s.SaveKeyValues(key, data)
SaveKeyValuesWith(keys, values, faults, max) ==
    /\ CanCall(max)
    /\ \E key \in keys, data \in values, fault \in faults :
         \E r \in SaveKeyValues(s, key, data, fault, files, dirs) :
             /\ files' = r.files
             /\ last' = Call("SaveKeyValues", key, Map(data), NoSlot, NoSlot,
                             r.err,
                             FaultMet(fault, r.err), "")
    /\ nops' = nops + 1
    /\ UNCHANGED <<s, inited, dirs, lastSet, prior, nnew, aborted, conc>>

\* s.LoadKeyValues(key)
LoadKeyValuesWith(keys, faults, max) ==
    /\ CanCall(max)
    /\ \E key \in keys, fault \in faults :
         \E r \in {LoadKeyValues(s, key, fault, files, dirs)} :
             last' = Call("LoadKeyValues", key, UntypedNil, NoSlot,
                          MapSlot(r.out), r.err, FaultMet(fault, r.err), "")
    /\ nops' = nops + 1
    /\ UNCHANGED <<s, inited, files, dirs, lastSet, prior, nnew, aborted, conc>>

-----------------------------------------------------------------------------
(* SpecKV: the service is created, and up to MaxKV times a key-value     *)
(* file is saved or loaded through it.                                    *)

InitKV == InitFrom({EmptyDisk, DiskWithKV})

\* A run works on one file: the calls after the first take its name.
KVNamesNow ==
    IF last.op \in {"SaveKeyValues", "LoadKeyValues"} THEN {last.key}
    ELSE KVNames

KVNew == nnew = 0 /\ NewWith({"none"}) /\ UNCHANGED conc
KVSave == SaveKeyValuesWith(KVNamesNow, KVMappings, WriteFaults, MaxKV)
KVLoad == LoadKeyValuesWith(KVNamesNow, ReadFaults, MaxKV)

NextKV ==
    \/ KVNew
    \/ KVSave
    \/ KVLoad

SpecKV == InitKV /\ [][NextKV]_vars

-----------------------------------------------------------------------------
(* Properties.  Each is stated over the record of the last call (last),   *)
(* of the last Set made on the current service (lastSet) and of what the  *)
(* previous service left behind (prior).                                  *)

\* A key is bound when it equals, ignoring case, one of the json names of
\* the Service struct.
IsBound(key) == \E k \in BoundKeys : EqualFold(k, key)

\* The declared type of the field a bound key addresses.
TypeOfKey(key) == IF EqualFold(key, "features") THEN "[]string" ELSE "string"

\* What Go allows to be assigned to a variable of type dst.
Fits(src, dst) == src = dst \/ dst = "interface {}"

\* The step just taken was a call of op on the service.
Called(op) == nops' = nops + 1 /\ last'.op = op

\* C1: a successful Set(key, v) followed, with no Set in between, by
\* Get(key, &out) with out of v's type succeeds and leaves out equal to v.
C1_SetThenGet ==
    (/\ last.op = "Get"
     /\ lastSet.op = "Set" /\ lastSet.err = "nil"
     /\ EqualFold(last.key, lastSet.key)
     /\ last.slot.kind = "ptr" /\ last.slot.type = lastSet.arg.t)
    => (last.err = "nil" /\ last.out.val = lastSet.arg)

C1_Witness ==
    /\ last.op = "Get" /\ last.key = "features"
    /\ lastSet.op = "Set" /\ lastSet.err = "nil" /\ lastSet.key = "features"
    /\ lastSet.arg = V("[]string", <<"beta">>)
    /\ last.err = "nil" /\ last.out.val = lastSet.arg

\* The record a decoder builds from the file at path p, starting from the
\* zero record.
Decoded(p) == Unmarshal(files[p], V("Service", ZeroService))

\* A record with every string made valid UTF-8.
Coerced(svc) ==
    [n \in DOMAIN svc |->
        IF svc[n].t \in {"string", "[]string"} /\ ~svc[n].nil
        THEN [svc[n] EXCEPT !.v = ToValidUTF8(@)]
        ELSE svc[n]]

\* C2, as stated: after every successful Set the document at the settings
\* path decodes to a record field-for-field equal to the record in memory.
C2_DiskEqualsMemory ==
    (last.op = "Set" /\ last.err = "nil")
    => /\ s.ConfigPath.v \in DOMAIN files
       /\ Decoded(s.ConfigPath.v) = [err |-> "nil", val |-> V("Service", s)]

\* C2, amended: after every successful Set the document at the settings
\* path decodes to the whole record in memory with every byte that is not
\* valid UTF-8 replaced by U+FFFD; it is field-for-field equal to the
\* record in memory when all the record's strings are valid UTF-8.
C2_DiskEqualsCoercedMemory ==
    (last.op = "Set" /\ last.err = "nil")
    => /\ s.ConfigPath.v \in DOMAIN files
       /\ Decoded(s.ConfigPath.v) = [err |-> "nil", val |-> V("Service", Coerced(s))]
       /\ (Coerced(s) = s
             => Decoded(s.ConfigPath.v) = [err |-> "nil", val |-> V("Service", s)])

C2_Witness ==
    /\ last.op = "Set" /\ last.err = "nil" /\ last.key = "language"
    /\ last.arg = Str(<<"de">>)
    /\ s.Language = Str(<<"de">>)
    /\ files[s.ConfigPath.v].v["language"] = JSON("string", <<"de">>)
    /\ files[s.ConfigPath.v].v["default_route"] = JSON("string", <<"/">>)

\* C3: when New finds no settings file it succeeds, the record holds the
\* defaults (language "en", default route "/", an empty feature list, the
\* resolved directories) and the settings file exists; when the write of
\* that file fails, New fails.
C3_DefaultsCreated ==
    (last.op = "New" /\ last.found = "notexist")
    => /\ last.fault \notin {"open", "write"} => last.err = "nil"
       /\ last.fault \in {"open", "write"} => (last.err = "write" /\ ~inited)
       /\ last.err = "nil"
            => /\ inited
               /\ s.Language = Str(<<"en">>)
               /\ s.DefaultRoute = Str(<<"/">>)
               /\ s.Features = V("[]string", <<>>)
               /\ s.UserHomeDir = Str(<<"/", "home", "lethean">>)
               /\ s.ConfigDir = Str(<<"/", "home", "lethean", "config">>)
               /\ s.DataDir = Str(<<"/", "home", "lethean", "data">>)
               /\ s.WorkspaceDir = Str(<<"/", "home", "lethean", "workspace">>)
               /\ s.RootDir = Str(<<"/", "home", ".local", "share", "lethean">>)
               /\ s.CacheDir = Str(<<"/", "home", ".cache", "lethean">>)
               /\ s.ConfigPath =
                    Str(<<"/", "home", "lethean", "config", "config.json">>)
               /\ s.ConfigPath.v \in DOMAIN files
               /\ files[s.ConfigPath.v].t = "object"

C3_Witness ==
    /\ last.op = "New" /\ last.found = "notexist" /\ last.err = "nil"
    /\ inited /\ s.Language = Str(<<"en">>)
    /\ s.ConfigPath.v \in DOMAIN files

\* Whether a settings document decodes: it is an object (or null) whose
\* members have the types of the fields they name.
Decodes(doc) ==
    /\ doc.t \in {"object", "null"}
    /\ doc.t = "object" =>
         \A k \in DOMAIN doc.v :
            IsBound(k) =>
               doc.v[k].t \in {"null", IF TypeOfKey(k) = "string"
                                       THEN "string" ELSE "array"}

\* C4: when New finds the settings file, it decodes it into the record;
\* when the content is malformed or empty, New fails with a decode error,
\* returns no service, does not fall back to the defaults and does not
\* rewrite the file.
C4_ExistingFileDecoded ==
    [][(nnew' = nnew + 1 /\ last'.op = "New" /\ last'.found = "ok")
       => LET doc == files[DefaultService.ConfigPath.v]
          IN  /\ files' = files
              /\ Decodes(doc)
                   => /\ last'.err = "nil" /\ inited'
                      /\ \A k \in {"language", "default_route"} :
                           s'[ServiceFields[FieldFor(k)].name] =
                              IF doc.t = "object" /\ k \in DOMAIN doc.v
                              THEN Str(doc.v[k].v)
                              ELSE DefaultService[ServiceFields[FieldFor(k)].name]
                      /\ s'.Features =
                           IF doc.t = "object" /\ "features" \in DOMAIN doc.v
                           THEN V("[]string", doc.v["features"].v)
                           ELSE DefaultService.Features
              /\ ~Decodes(doc)
                   => /\ last'.err = "unmarshal"
                      /\ ~inited'
                      /\ s' = ZeroService]_vars

C4_Witness ==
    /\ last.op = "New" /\ last.found = "ok" /\ last.err = "unmarshal"
    /\ ~inited
    /\ files[DefaultService.ConfigPath.v] = EmptyContent

\* C5: New called twice in a row on an environment that starts empty: the
\* first call creates the defaults and the file, the second returns a
\* record field-for-field equal to the first's.
C5_InitTwice ==
    (/\ last.op = "New"
     /\ prior.new.op = "New" /\ prior.new.err = "nil"
     /\ prior.new.found = "notexist")
    => /\ last.err = "nil" /\ last.found = "ok" /\ inited
       /\ s = prior.svc

C5_Witness ==
    /\ last.op = "New" /\ last.found = "ok" /\ last.err = "nil"
    /\ prior.new.op = "New" /\ prior.new.err = "nil"
    /\ prior.new.found = "notexist"
    /\ s = prior.svc /\ s.Features = V("[]string", <<>>)

\* C6: Get and Set of a key bound to no field fail with the lookup error
\* and leave the record, every file and (for Get) the output slot as they
\* were.
C6_UnboundKey ==
    [][((Called("Get") \/ Called("Set")) /\ ~IsBound(last'.key))
       => /\ last'.err = "key not found"
          /\ s' = s /\ files' = files /\ dirs' = dirs
          /\ last'.out = last'.slot
          /\ ~aborted']_vars

C6_Witness ==
    /\ last.op = "Get" /\ last.key = "nonexistent"
    /\ last.slot = Ptr("string", Str(<<"old">>))
    /\ last.err = "key not found" /\ last.out = last.slot

\* C7, as stated: Set of a bound key with a value whose type cannot be
\* assigned to the field, the nil value included, returns the
\* type-mismatch error, does not abort, and leaves the record and the
\* files as they were.
C7_SetTypeMismatch ==
    [][(Called("Set") /\ IsBound(last'.key)
          /\ ~Fits(last'.arg.t, TypeOfKey(last'.key)))
       => /\ last'.err = "type mismatch"
          /\ ~aborted'
          /\ s' = s /\ files' = files]_vars

\* The state the code is in after Set("language", nil): reflect.ValueOf(nil)
\* is the zero Value, its Type() panicked, and no error was returned.
C7_Witness ==
    /\ last.op = "Set" /\ last.key = "language" /\ last.arg = UntypedNil
    /\ last.err = "panic" /\ aborted

\* C8: Get of a bound key fails when the output argument is not a non-nil
\* pointer, or when the field's type is not assignable to the type it
\* points to; the output is left as it was.
C8_GetBadSlot ==
    (/\ last.op = "Get" /\ IsBound(last.key)
     /\ \/ last.slot.kind # "ptr"
        \/ ~Fits(TypeOfKey(last.key), last.slot.type))
    => /\ last.err \in {"not a pointer", "cannot assign"}
       /\ last.slot.kind # "ptr" => last.err = "not a pointer"
       /\ last.out = last.slot

C8_Witness ==
    /\ last.op = "Get" /\ last.key = "language"
    /\ last.slot = Ptr("int", V("int", <<"0">>))
    /\ last.err = "cannot assign" /\ last.out = last.slot

\* C9: Get has no side effect: whether it succeeds or fails, the record
\* and every file and directory are after the call what they were before.
C9_GetNoSideEffect ==
    [][Called("Get") => (s' = s /\ files' = files /\ dirs' = dirs
                         /\ inited' = inited)]_vars

C9_Witness ==
    /\ last.op = "Get" /\ last.key = "language" /\ last.err = "nil"
    /\ last.out.val = Str(<<"en">>) /\ last.slot.val = Str(<<"old">>)
    /\ s.Language = Str(<<"en">>)

\* C10: LoadStruct of a name whose file does not exist returns success,
\* leaves the output as it was (zero when it was zero) and creates no
\* file.
C10_LoadStructAbsent ==
    [][(Called("LoadStruct") /\ last'.found = "notexist"
          /\ last'.fault = "none")
       => /\ last'.err = "nil"
          /\ last'.out = last'.slot
          /\ files' = files /\ dirs' = dirs /\ s' = s]_vars

C10_Witness ==
    /\ last.op = "LoadStruct" /\ last.key = "non-existent"
    /\ last.found = "notexist" /\ last.err = "nil"
    /\ last.slot = Ptr("CustomConfig", ZeroCustomConfig)
    /\ last.out = last.slot
    /\ DOMAIN files = {s.ConfigPath.v}

\* A struct value with every string made valid UTF-8.
CoercedStruct(x) == [x EXCEPT !.v = Coerced(x.v)]

\* LoadStruct of the name just saved, into a zero value of the saved type.
LoadsBackAfterSave ==
    /\ last.op = "SaveStruct" /\ last.err = "nil"
    /\ Called("LoadStruct")
    /\ last'.key = last.key
    /\ last'.fault = "none"
    /\ last'.slot = Ptr("CustomConfig", ZeroCustomConfig)

LoadedNull ==
    /\ last.op = "LoadStruct" /\ last.found = "ok" /\ last.fault = "none"
    /\ files[StructPath(s, last.key)] = JSONNull

\* C12, as stated: LoadStruct of a file holding null succeeds and leaves
\* the output zero-valued, whatever the output held before.
C12_NullGivesZero ==
    LoadedNull => (last.err = "nil" /\ last.out.val = ZeroCustomConfig)

\* C12, amended: LoadStruct of a file holding null succeeds and leaves
\* the output as it was: zero-valued when it was zero-valued before the
\* call, and holding its prior content otherwise.
C12_NullLeavesOutput ==
    LoadedNull => (last.err = "nil" /\ last.out = last.slot)

C12_Witness ==
    /\ LoadedNull /\ last.err = "nil"
    /\ last.slot = Ptr("CustomConfig", CustomConfig(<<"old">>, "7"))
    /\ last.out = last.slot

\* C13: LoadStruct of a file whose content is malformed returns the decode
\* error; it is not passed over as a file that does not exist is.
C13_MalformedStructFile ==
    (/\ last.op = "LoadStruct" /\ last.found = "ok" /\ last.fault = "none"
     /\ files[StructPath(s, last.key)].t \in {"malformed", "empty"})
    => (last.err = "unmarshal" /\ last.out = last.slot)

C13_Witness ==
    /\ last.op = "LoadStruct" /\ last.found = "ok"
    /\ files[StructPath(s, last.key)] = MalformedContent
    /\ last.err = "unmarshal"

\* C14: SaveStruct of a value that cannot be serialized (a channel)
\* returns the serialization error, and the file of that name is neither
\* created nor changed.
C14_UnserializableStruct ==
    [][(Called("SaveStruct") /\ last'.arg.t = "chan int")
       => /\ last'.err = "marshal"
          /\ files' = files /\ dirs' = dirs]_vars

C14_Witness ==
    /\ last.op = "SaveStruct" /\ last.arg = V("chan int", <<>>)
    /\ last.key = "custom" /\ last.err = "marshal"
    /\ StructPath(s, "custom") \in DOMAIN files
    /\ files[StructPath(s, "custom")] = JSONNull

\* C18, as stated: after every successful New, whether it created the
\* defaults or loaded a settings file, each of the six directories the
\* record names exists; a failure to create one of them makes New fail.
C18_DirectoriesExist ==
    last.op = "New"
    => /\ last.err = "nil" =>
            \A i \in DOMAIN DirsOf(s) : DirsOf(s)[i] \in dirs
       /\ last.fault \in MkdirFaults => (last.err = "mkdir" /\ ~inited)

\* The state after New loaded a settings file naming a data directory of
\* its own: New succeeded and that directory does not exist.
C18_Witness ==
    /\ last.op = "New" /\ last.err = "nil" /\ last.found = "ok"
    /\ s.DataDir = Str(AltPath)
    /\ AltPath \notin dirs

\* What the code does ensure: the six directories New resolved exist after
\* every successful New, and New fails when one cannot be made.
C18_ResolvedDirectoriesExist ==
    last.op = "New"
    => /\ last.err = "nil" =>
            \A i \in DOMAIN DirsOf(DefaultService) :
                DirsOf(DefaultService)[i] \in dirs
       /\ last.fault \in MkdirFaults => (last.err = "mkdir" /\ ~inited)

\* The settings path is config.json under the record's config directory.
PathUnderConfigDir(svc) ==
    svc.ConfigPath.v = Join(svc.ConfigDir.v, "config.json")

WroteOnly(p) ==
    /\ p \in DOMAIN files'
    /\ \A q \in (DOMAIN files \cup DOMAIN files') \ {p} :
          q \in DOMAIN files /\ q \in DOMAIN files' /\ files'[q] = files[q]

AllReturned ==
    /\ Procs # {}
    /\ \A p \in Procs : conc.th[p].pc = "done"

\* C20, as stated: in every interleaving of Set and Get calls made at once
\* on one service no call aborts the program, and once all the calls have
\* returned the settings file holds a document that parses.
C20_ConcurrentSetKeepsFileParsable ==
    /\ ~aborted
    /\ AllReturned =>
         /\ s.ConfigPath.v \in DOMAIN files
         /\ files[s.ConfigPath.v].t \notin {"empty", "malformed"}

\* The state after Set("language", "english") and Set("language", "en")
\* ran at once and both returned: the file holds the shorter document
\* followed by the tail of the longer one.
C20_Witness ==
    /\ AllReturned /\ ~aborted
    /\ \A p \in Procs : conc.th[p].call.op = "Set"
                        /\ conc.th[p].call.key = "language"
    /\ files[s.ConfigPath.v].t = "malformed"

\* The adapter each name of KVNames stands for, read off the name: the
\* extension is what follows the last dot of the part after the last slash.
FormatOfName ==
    (<<"settings", ".", "json">> :> "json") @@ (<<"a", ".", "JSON">> :> "json")
    @@ (<<"a", ".", "yaml">> :> "yaml") @@ (<<"a", ".", "Yaml">> :> "yaml")
    @@ (<<"a", ".", "yml">> :> "yaml") @@ (<<"a", ".", "ini">> :> "ini")
    @@ (<<"a", ".", "XML">> :> "xml") @@ (<<"a", ".", "txt">> :> "none")
    @@ (<<"noext">> :> "none") @@ (<<>> :> "none") @@ (<<"json">> :> "none")
    @@ (<<"a", ".", "json", ".", "bak">> :> "none")
    @@ (<<".", "json">> :> "json")
    @@ (<<"sub", ".", "ini", "/", "data">> :> "none")
    @@ (<<"sub", "/", "a", ".", "json">> :> "json")
    @@ (<<".", ".", "/", "up", ".", "xml">> :> "xml")

\* The step just taken was SaveKeyValues or LoadKeyValues.
CalledKV == Called("SaveKeyValues") \/ Called("LoadKeyValues")

\* The file a key-value call of the name is about.
KVPath(name) == JoinName(s.ConfigDir.v, name)

\* C15: the format of a name is a function of the name alone.  A name whose
\* extension is .json, .yaml, .yml, .ini or .xml in any case gets the JSON,
\* YAML, YAML, INI or XML adapter (a file saved under it holds a document
\* of that format); every other name, one with no extension included, is
\* refused with the unsupported-format error, and nothing is written.  A
\* second call of the same name is refused exactly when the first was,
\* whatever the disk holds by then.
C15_FormatResolver ==
    [][CalledKV =>
         /\ (FormatOfName[last'.key] = "none") <=> (last'.err = "unsupported")
         /\ last'.err = "unsupported" => files' = files
         /\ (Called("SaveKeyValues") /\ last'.err = "nil")
               => files'[KVPath(last'.key)].t = FormatOfName[last'.key]
         /\ (last.op \in {"SaveKeyValues", "LoadKeyValues"}
                /\ last.key = last'.key)
               => ((last.err = "unsupported") <=> (last'.err = "unsupported"))
      ]_vars

C15_Witness ==
    /\ last.op = "SaveKeyValues" /\ last.key = <<"a", ".", "Yaml">>
    /\ last.err = "nil"
    /\ files[KVPath(last.key)].t = "yaml"

\* A mapping as the set of its entries.
Pairs(m) == {<<k, m[k]>> : k \in DOMAIN m}

\* A whole number, as an integer or as a floating-point number.
Loose(x) ==
    IF x.t \in {"int", "float64"} /\ Whole(x.v) THEN V("number", x.v) ELSE x

\* The value's string form.
StringForm(x) == Str(Sprint(x))

\* Normalize_format(m), as entries.
Normalize(format, m) ==
    IF format \in {"json", "yaml"}
    THEN {<<k, Loose(m[k])>> : k \in DOMAIN m}
    ELSE IF format = "xml"
    THEN {<<k, StringForm(m[k])>> : k \in DOMAIN m}
    ELSE {<<IF \E i \in DOMAIN k : k[i] = "." THEN k
            ELSE <<"DEFAULT", ".">> \o k,
            StringForm(m[k])>> : k \in DOMAIN m}

\* LoadKeyValues of the name just saved.
KVLoadsBackAfterSave ==
    /\ last.op = "SaveKeyValues" /\ last.err = "nil"
    /\ Called("LoadKeyValues")
    /\ last'.key = last.key
    /\ last'.fault = "none"

\* C16, as stated: in each of the four formats, a successful Save of a
\* mapping m followed by Load of the same file succeeds and returns
\* Normalize_format(m).
C16_SaveThenLoadNormalizes ==
    [][KVLoadsBackAfterSave =>
         /\ last'.err = "nil"
         /\ {<<e[1], Loose(e[2])>> : e \in Pairs(last'.out.val.v)}
               = Normalize(FormatOfName[last.key], last.arg.v)
      ]_vars

\* The state after {"x": "1", "DEFAULT.x": "2"} was saved to a.ini and
\* loaded back: one entry is left.
C16_Witness ==
    /\ last.op = "LoadKeyValues" /\ last.key = <<"a", ".", "ini">>
    /\ last.err = "nil"
    /\ DOMAIN last.out.val.v = {<<"DEFAULT", ".", "x">>}
    /\ last.out.val.v[<<"DEFAULT", ".", "x">>] = Str(<<"1">>)

\* C17: SaveKeyValues and LoadKeyValues of a name with no known extension
\* fail with the unsupported-format error, write no file and return no
\* mapping, whatever file of that name there is.  Of any other name they
\* touch no file but the one of that name under the config directory, and
\* what they return and leave on disk is what the Save or Load of the
\* name's adapter does with that file.
C17_KeyValuesDelegate ==
    [][CalledKV =>
         LET name == last'.key
             want == FormatOfName[name]
             p == KVPath(name)
         IN  IF want = "none"
             THEN /\ last'.err = "unsupported"
                  /\ files' = files
                  /\ Called("LoadKeyValues") => last'.out = MapSlot(<<>>)
             ELSE /\ last'.err # "unsupported"
                  /\ \A q \in (DOMAIN files \cup DOMAIN files') \ {p} :
                        /\ q \in DOMAIN files /\ q \in DOMAIN files'
                        /\ files'[q] = files[q]
                  /\ Called("SaveKeyValues") =>
                        \E fault \in WriteFaults :
                           [err |-> last'.err, files |-> files']
                              \in FormatSave(want, p, last'.arg.v, fault,
                                             files, dirs)
                  /\ Called("LoadKeyValues") =>
                        /\ files' = files
                        /\ \E fault \in ReadFaults :
                              [err |-> last'.err, out |-> last'.out.val.v]
                                 = FormatLoad(want, p, fault, files, dirs)
      ]_vars

C17_Witness ==
    /\ last.op = "LoadKeyValues" /\ last.key = <<"a", ".", "txt">>
    /\ last.err = "unsupported"
    /\ KVPath(last.key) \in DOMAIN files

\* The field of the settings record a bound key names.
FieldOfKey ==
    ("configpath" :> "ConfigPath") @@ ("userhomedir" :> "UserHomeDir")
    @@ ("rootdir" :> "RootDir") @@ ("cachedir" :> "CacheDir")
    @@ ("configdir" :> "ConfigDir") @@ ("datadir" :> "DataDir")
    @@ ("workspacedir" :> "WorkspaceDir") @@ ("default_route" :> "DefaultRoute")
    @@ ("features" :> "Features") @@ ("language" :> "Language")

FieldNamed(key) == FieldOfKey[Fold(key)]

\* The json name under which a bound key's field is written.
NameOfKey ==
    ("configpath" :> "configPath") @@ ("userhomedir" :> "userHomeDir")
    @@ ("rootdir" :> "rootDir") @@ ("cachedir" :> "cacheDir")
    @@ ("configdir" :> "configDir") @@ ("datadir" :> "dataDir")
    @@ ("workspacedir" :> "workspaceDir") @@ ("default_route" :> "default_route")
    @@ ("features" :> "features") @@ ("language" :> "language")

\* Set was called with a bound key and a value of a type the field takes.
CalledSetThatFits ==
    /\ Called("Set")
    /\ IsBound(last'.key)
    /\ last'.arg # UntypedNil
    /\ Fits(last'.arg.t, TypeOfKey(last'.key))

\* The document at path p in fs holds value v under the json name of key.
Holds(fs, p, key, v) ==
    /\ p \in DOMAIN fs
    /\ fs[p].t = "object"
    /\ NameOfKey[Fold(key)] \in DOMAIN fs[p].v
    /\ Unmarshal(fs[p], V("Service", ZeroService)).err = "nil"
    /\ Unmarshal(fs[p], V("Service", ZeroService)).val.v[FieldNamed(key)] = v

PathKeys == {"configpath", "userhomedir", "rootdir", "cachedir", "configdir",
             "datadir", "workspacedir"}

\* Get of the key of the last Set made on the previous service, on a
\* service made by New after that Set, with an output of the value's type.
GetAfterReinit ==
    /\ last.op = "Get"
    /\ nnew >= 2 /\ lastSet = NoCall
    /\ prior.set.op = "Set" /\ prior.set.err = "nil"
    /\ EqualFold(last.key, prior.set.key)
    /\ last.slot.kind = "ptr" /\ last.slot.type = prior.set.arg.t

Reloaded(key, v) ==
    IF Fold(key) = "configpath" THEN DefaultService.ConfigPath
    ELSE IF Fold(key) \in PathKeys /\ v = Str(<<>>)
    THEN DefaultService[FieldNamed(key)]
    ELSE IF v.nil THEN v
    ELSE [v EXCEPT !.v = ToValidUTF8(@)]

\* The service the Set was made on still had the settings path New gave
\* it.
SetSavedToResolvedPath == prior.svc.ConfigPath = DefaultService.ConfigPath

UniqueKeys ==
    \A i, j \in DOMAIN ServiceFields :
       (/\ i # j
        /\ ServiceFields[i].tag[1] \notin {"", "-"}
        /\ ServiceFields[j].tag[1] \notin {"", "-"})
       => ~EqualFold(ServiceFields[i].tag[1], ServiceFields[j].tag[1])

\* C23: Get and Set of a bound key in any case find a field, and it is the
\* one field the key names: Set assigns that field and no other, Get
\* copies that field; no two fields have keys equal ignoring case; and "-",
\* the tag of the field that is not serialized, addresses nothing.
C23_CaseInsensitiveLookup ==
    [][(Called("Get") \/ Called("Set")) =>
         /\ UniqueKeys
         /\ last'.key = "-" => (last'.err = "key not found" /\ s' = s)
         /\ IsBound(last'.key) =>
              LET f == FieldNamed(last'.key)
              IN  /\ last'.err # "key not found"
                  /\ \A n \in DOMAIN s \ {f} : s'[n] = s[n]
                  /\ CalledSetThatFits => s'[f] = last'.arg
                  /\ (Called("Set") /\ ~CalledSetThatFits) => s' = s
                  /\ Called("Get") =>
                        /\ s' = s
                        /\ last'.err = "nil" => last'.out.val = s[f]
      ]_vars

C23_Witness ==
    /\ last.op = "Set" /\ last.key = "LANGUAGE" /\ last.arg = Str(<<"de">>)
    /\ last.err = "nil"
    /\ s.Language = Str(<<"de">>) /\ s.DefaultRoute = Str(<<"/">>)

\* Every goroutine called Set, each on a key of its own, and all the
\* calls have returned (a Set that returns returns nil here: no write
\* fails).
SetsOfDifferentKeysReturned ==
    /\ AllReturned /\ ~aborted
    /\ \A p \in Procs : conc.th[p].call.op = "Set"
    /\ \A p, q \in Procs : p # q => conc.th[p].call.key # conc.th[q].call.key

\* C24, as stated: when Set calls made at once on different keys of one
\* service have all returned success, the settings file holds each call's
\* new value and decodes to the record in memory.
C24_ConcurrentSetsBothPersist ==
    SetsOfDifferentKeysReturned =>
       /\ \A p \in Procs :
             Holds(files, s.ConfigPath.v, conc.th[p].call.key,
                   conc.th[p].call.v)
       /\ Decoded(s.ConfigPath.v) = [err |-> "nil", val |-> V("Service", s)]

\* The state after Set("language", "english") and Set("features",
\* []string{"beta"}) ran at once and both returned: the record in memory
\* holds both values, the file is a document without the new feature list.
C24_Witness ==
    /\ SetsOfDifferentKeysReturned
    /\ s.Language = Str(<<"english">>)
    /\ s.Features = V("[]string", <<"beta">>)
    /\ files[s.ConfigPath.v].t = "object"
    /\ files[s.ConfigPath.v].v["language"] = JSON("string", <<"english">>)
    /\ files[s.ConfigPath.v].v["features"] = JSON("array", <<>>)

\* The Go value a member of a settings document stands for.
ValueOf(j) == IF j.t = "array" THEN V("[]string", j.v) ELSE Str(j.v)

C26_INIKeepsKeysApart ==
    [][(KVLoadsBackAfterSave /\ FormatOfName[last.key] = "ini") =>
         /\ last'.err = "nil"
         /\ Cardinality(DOMAIN last'.out.val.v)
               = Cardinality(DOMAIN last.arg.v)
      ]_vars

\* The state after {"x": "1", "DEFAULT.x": "2"} was saved to a.ini, the
\* map being walked with "x" first, and loaded back: the one entry left
\* is that of "DEFAULT.x".
C26_Witness ==
    /\ last.op = "LoadKeyValues" /\ last.key = <<"a", ".", "ini">>
    /\ last.err = "nil"
    /\ Cardinality(DOMAIN last.out.val.v) = 1
    /\ Pairs(last.out.val.v) = {<< <<"DEFAULT", ".", "x">>, Str(<<"2">>) >>}
    /\ files[KVPath(last.key)].v[<<DefaultSection, <<"x">> >>] = <<"2">>

====
